---- MODULE Spec2Model ----
(***************************************************************************)
(* WeatherJukeboxAPI: the exhaustible pools of the music and movie         *)
(* recommenders (src/services/music_service.py, movie_service.py), their   *)
(* route handlers (src/api/routes.py) and the startup hook (src/main.py),  *)
(* and the weather lookup with its region list and its cache               *)
(* (src/services/weather_service.py).                                      *)
(*                                                                         *)
(* A video is identified by its position in yt_videos.json (the VideoData  *)
(* object built from that entry); the lists hold these references and the  *)
(* mutable played flag of the object lives in `played`.  A poster is       *)
(* identified by its file name.                                            *)
(***************************************************************************)
EXTENDS Integers, Sequences, FiniteSets, TLC

\* ------------------------------------------------------------------ bounds
\* Largest number of entries of yt_videos.json that is explored.
MaxVideos == 2
\* Largest number of directory entries of the poster directory explored.
MaxFiles == 3
\* Weather requests that may be in flight at once.
MaxHandlers == 2
\* Weather requests taken in one run.
MaxLookups == 2
\* The clock is read every TickSeconds seconds, MaxTicks times at most.
MaxTicks == 3
TickSeconds == 300
\* Longest list of candidate names handed to the name corrector on its own.
MaxCandidates == 2
\* Longest weather description handed to the classifier on its own.
MaxDescLen == 3

\* ----------------------------------------------------------- environment
\* Weather descriptions sent to /recommend_music:
\*   "qing_tian" = 晴天, "xia_yu" = 下雨
Queries == {"qing_tian", "xia_yu"}

\* The matched_weather_descriptions lists a yt_videos.json entry may carry:
\*   "xia_yu" = 下雨, "duo_yun" = 多雲, "qing_tian_shi_duo_yun" = 晴天時多雲,
\*   "yin_tian" = 陰天.  VideoData requires the list but not an element of it.
TagLists ==
  { <<>>,
    <<"xia_yu", "duo_yun">>,
    <<"qing_tian_shi_duo_yun">>,
    <<"yin_tian">> }

\* File name extensions found in the poster directory.
Exts == {".JPG", ".txt"}

\* fuzz.partial_ratio(weather_desc.lower(), desc.lower()) on the strings above
\* (lower() leaves them as they are): 100 when the shorter string occurs in the
\* longer one, 50 for 晴天/陰天 (one of two characters), 0 without a common
\* character.
partial_ratio(s1, s2) ==
  CASE s1 = "qing_tian" /\ s2 = "qing_tian_shi_duo_yun" -> 100
    [] s1 = "qing_tian" /\ s2 = "yin_tian" -> 50
    [] s1 = "xia_yu" /\ s2 = "xia_yu" -> 100
    [] OTHER -> 0

\* music_service.py:93, `best_score >= 70`
MATCH_THRESHOLD == 70

\* str.lower() on a file name extension
Lower(ext) == IF ext = ".JPG" THEN ".jpg" ELSE ext

\* movie_service.py:29
formats == {".png", ".jpg", ".jpeg", ".gif"}

\* ------------------------------------------------------------------ state
VARIABLES
  started,                \* main.py lifespan has run
  yt_videos_json,         \* the data file: [exists, items: Seq([tags, played])]
  all_available_videos,   \* music_service._all_available_videos
  unplayed_videos,        \* music_service._unplayed_videos
  played,                 \* VideoData.played of every loaded video
  poster_dir,             \* the poster directory: [exists, files: Seq([stem, ext])]
  all_movie_posters,      \* movie_service._all_movie_posters
  unrecommended_posters,  \* movie_service._unrecommended_posters
  response,               \* what the last request handler returned
  music_count,            \* items served by the music routes since load, up to |universe|+1
  music_seen,             \* the videos served since load
  music_cycle,            \* per video, how often it was served since the last refill (up to 2)
  music_refilled,         \* the music pool has been refilled at least once
  music_only_random,      \* every music request so far was /random_music
  movie_count,            \* as music_count, for the posters
  movie_seen,
  movie_cycle,            \* per poster, as music_cycle
  movie_refilled,
  location_names,         \* weather_service._location_names
  weather_data_cache,     \* weather_service._weather_data_cache
  now,                    \* datetime.now(), in seconds
  pc,                     \* per weather request: where its coroutine is suspended
  city_input,             \* per weather request: the city it was given
  corrected_city,         \* per weather request: the region it asked the forecast for
  weather_event,          \* what the last step of a weather request did or returned
  forecast_requests,      \* forecast requests sent upstream so far
  lookups,                \* weather requests taken so far
  call                    \* a function applied on its own: arguments and result

music_vars == <<yt_videos_json, all_available_videos, unplayed_videos, played,
                music_count, music_seen, music_cycle, music_refilled,
                music_only_random>>
movie_vars == <<poster_dir, all_movie_posters, unrecommended_posters,
                movie_count, movie_seen, movie_cycle, movie_refilled>>
weather_vars == <<location_names, weather_data_cache, now, pc, city_input,
                  corrected_city, weather_event, forecast_requests, lookups>>
pool_vars == <<response, music_vars, movie_vars>>
vars == <<started, pool_vars, weather_vars, call>>

\* ---------------------------------------------------------------- helpers
\* list.remove(x): drops the first element equal to x
RECURSIVE ListRemove(_, _)
ListRemove(list, x) ==
  IF list = <<>> THEN <<>>
  ELSE IF Head(list) = x THEN Tail(list)
  ELSE <<Head(list)>> \o ListRemove(Tail(list), x)

Range(s) == {s[i] : i \in DOMAIN s}

Min2(a, b) == IF a < b THEN a ELSE b

\* max(...) over a non-empty sequence of numbers
RECURSIVE MaxOf(_)
MaxOf(s) ==
  IF Len(s) = 1 THEN s[1]
  ELSE LET m == MaxOf(Tail(s)) IN IF Head(s) >= m THEN Head(s) ELSE m

\* ------------------------------------------------------- music_service.py
NoVideo == 0

\* What a music service function hands back: a video ("item"), the
\* MusicRecommendation without url of an empty list ("uninitialized"), None,
\* or the ValueError of max() over no tags.
MusicRet(kind, item) == [kind |-> kind, item |-> item]

\* Mutant of load_videos_data: the unplayed list is a plain copy of the whole
\* list, whatever the played flags of the file say.
load_videos_data_unfiltered(all, unplayed, playedf, file) ==
  IF all # <<>> THEN [all |-> all, unplayed |-> unplayed, played |-> playedf]
  ELSE IF ~file.exists THEN [all |-> all, unplayed |-> unplayed, played |-> playedf]
  ELSE LET n == Len(file.items)
           loaded == [i \in 1..n |-> i]
       IN [all |-> loaded,
           unplayed |-> loaded,
           played |-> [i \in 1..n |-> file.items[i].played]]

\* Mutant of load_videos_data: the file is read again although the list is
\* loaded.
load_videos_data_always_reads(all, unplayed, playedf, file) ==
  IF ~file.exists THEN [all |-> all, unplayed |-> unplayed, played |-> playedf]
  ELSE LET n == Len(file.items)
           loaded == [i \in 1..n |-> i]
           flags == [i \in 1..n |-> file.items[i].played]
       IN [all |-> loaded,
           unplayed |-> SelectSeq(loaded, LAMBDA v : ~flags[v]),
           played |-> flags]

\* _load_videos_data: a no-op once the list is loaded or when the file cannot
\* be read; otherwise every entry becomes a VideoData and the entries not
\* marked played become the unplayed list.
load_videos_data(all, unplayed, playedf, file) ==
  IF all # <<>> THEN [all |-> all, unplayed |-> unplayed, played |-> playedf]
  ELSE IF ~file.exists THEN [all |-> all, unplayed |-> unplayed, played |-> playedf]
  ELSE LET n == Len(file.items)
           loaded == [i \in 1..n |-> i]
           flags == [i \in 1..n |-> file.items[i].played]
       IN [all |-> loaded,
           unplayed |-> SelectSeq(loaded, LAMBDA v : ~flags[v]),
           played |-> flags]

\* Mutant of reset_videos: the played flags stay as they are.
reset_videos_keeps_flags(all, playedf) ==
  [all |-> all, unplayed |-> all, played |-> playedf]

\* The reset of an exhausted list: every played flag cleared,
\* _unplayed_videos[:] = _all_available_videos
reset_videos(all, playedf) ==
  [all |-> all, unplayed |-> all, played |-> [v \in DOMAIN playedf |-> FALSE]]

\* max(fuzz.partial_ratio(weather_desc.lower(), desc.lower()) for desc in ...)
best_score_for_video(weather_desc, tags) ==
  MaxOf([k \in 1..Len(tags) |-> partial_ratio(weather_desc, tags[k])])

\* Mutant of ScanUnplayed: a video also replaces the best match when its score
\* equals the best score.
RECURSIVE ScanUnplayed_last_of_equals(_, _, _, _, _)
ScanUnplayed_last_of_equals(rest, items, weather_desc, best_match, best_score) ==
  IF rest = <<>>
  THEN [raised |-> FALSE, best_match |-> best_match, best_score |-> best_score]
  ELSE LET video == Head(rest)
           tags == items[video].tags
       IN IF tags = <<>>
          THEN [raised |-> TRUE, best_match |-> best_match, best_score |-> best_score]
          ELSE LET s == best_score_for_video(weather_desc, tags)
               IN IF s >= best_score
                  THEN ScanUnplayed_last_of_equals(Tail(rest), items, weather_desc,
                                                   video, s)
                  ELSE ScanUnplayed_last_of_equals(Tail(rest), items, weather_desc,
                                                   best_match, best_score)

\* The for loop over _unplayed_videos: best_match and best_score as the loop
\* leaves them, or raised when max() meets a video without tags.
RECURSIVE ScanUnplayed(_, _, _, _, _)
ScanUnplayed(rest, items, weather_desc, best_match, best_score) ==
  IF rest = <<>>
  THEN [raised |-> FALSE, best_match |-> best_match, best_score |-> best_score]
  ELSE LET video == Head(rest)
           tags == items[video].tags
       IN IF tags = <<>>
          THEN [raised |-> TRUE, best_match |-> best_match, best_score |-> best_score]
          ELSE LET s == best_score_for_video(weather_desc, tags)
               IN IF s > best_score
                  THEN ScanUnplayed(Tail(rest), items, weather_desc, video, s)
                  ELSE ScanUnplayed(Tail(rest), items, weather_desc, best_match, best_score)

\* `if best_match and best_score >= 70`
IsGoodMatch(best_match, best_score) ==
  best_match # NoVideo /\ best_score >= MATCH_THRESHOLD

\* Mutant of TakeVideo: the video is marked played but stays in the list.
TakeVideo_not_removed(all, unplayed, playedf, video) ==
  [all |-> all,
   unplayed |-> unplayed,
   played |-> [playedf EXCEPT ![video] = TRUE]]

\* Marks the chosen video played and removes it from the unplayed list.
TakeVideo(all, unplayed, playedf, video) ==
  [all |-> all,
   unplayed |-> ListRemove(unplayed, video),
   played |-> [playedf EXCEPT ![video] = TRUE]]

\* Mutant of match_unplayed: the best match is marked and removed before the
\* threshold is tested.
match_unplayed_takes_first(all, unplayed, playedf, items, weather_desc) ==
  LET same == [all |-> all, unplayed |-> unplayed, played |-> playedf]
      scan == ScanUnplayed(unplayed, items, weather_desc, NoVideo, -1)
  IN IF scan.raised
     THEN [st |-> same, ret |-> MusicRet("ValueError", NoVideo)]
     ELSE IF scan.best_match = NoVideo
     THEN [st |-> same, ret |-> MusicRet("None", NoVideo)]
     ELSE LET taken == [all |-> all,
                        unplayed |-> ListRemove(unplayed, scan.best_match),
                        played |-> [playedf EXCEPT ![scan.best_match] = TRUE]]
          IN IF scan.best_score >= MATCH_THRESHOLD
             THEN [st |-> taken, ret |-> MusicRet("item", scan.best_match)]
             ELSE [st |-> taken, ret |-> MusicRet("None", NoVideo)]

\* find_and_recommend_music_by_desc from `best_match = None` on: the scan of
\* a non-empty unplayed list and the threshold test.
match_unplayed(all, unplayed, playedf, items, weather_desc) ==
  LET same == [all |-> all, unplayed |-> unplayed, played |-> playedf]
      scan == ScanUnplayed(unplayed, items, weather_desc, NoVideo, -1)
  IN IF scan.raised
     THEN [st |-> same, ret |-> MusicRet("ValueError", NoVideo)]
     ELSE IF IsGoodMatch(scan.best_match, scan.best_score)
     THEN [st |-> TakeVideo(all, unplayed, playedf, scan.best_match),
           ret |-> MusicRet("item", scan.best_match)]
     ELSE [st |-> same, ret |-> MusicRet("None", NoVideo)]

\* get_random_music_recommendation from `if _unplayed_videos:` on.  pick is the
\* position random.choice draws, folded into the length of the list.
choose_unplayed(all, unplayed, playedf, pick) ==
  IF unplayed # <<>>
  THEN LET chosen_video == unplayed[((pick - 1) % Len(unplayed)) + 1]
       IN [st |-> TakeVideo(all, unplayed, playedf, chosen_video),
           ret |-> MusicRet("item", chosen_video)]
  ELSE [st |-> [all |-> all, unplayed |-> unplayed, played |-> playedf],
        ret |-> MusicRet("None", NoVideo)]

\* Mutant of find_and_recommend_music_by_desc: an exhausted list is not reset
\* and the call returns None.
find_and_recommend_music_by_desc_gives_up(all0, unplayed0, played0, file, weather_desc, depth) ==
  LET ld == IF all0 = <<>>
            THEN load_videos_data(all0, unplayed0, played0, file)
            ELSE [all |-> all0, unplayed |-> unplayed0, played |-> played0]
  IN IF ld.all = <<>>
     THEN [st |-> ld, ret |-> MusicRet("uninitialized", NoVideo), depth |-> depth]
     ELSE IF ld.unplayed = <<>>
     THEN [st |-> ld, ret |-> MusicRet("None", NoVideo), depth |-> depth]
     ELSE LET m == match_unplayed(ld.all, ld.unplayed, ld.played, file.items,
                                  weather_desc)
          IN [st |-> m.st, ret |-> m.ret, depth |-> depth]

\* find_and_recommend_music_by_desc.  depth counts the recursive calls.
RECURSIVE find_and_recommend_music_by_desc(_, _, _, _, _, _)
find_and_recommend_music_by_desc(all0, unplayed0, played0, file, weather_desc, depth) ==
  LET ld == IF all0 = <<>>
            THEN load_videos_data(all0, unplayed0, played0, file)
            ELSE [all |-> all0, unplayed |-> unplayed0, played |-> played0]
  IN IF ld.all = <<>>
     THEN [st |-> ld, ret |-> MusicRet("uninitialized", NoVideo), depth |-> depth]
     ELSE IF ld.unplayed = <<>>
     THEN LET rs == reset_videos(ld.all, ld.played)
          IN find_and_recommend_music_by_desc(rs.all, rs.unplayed, rs.played,
                                              file, weather_desc, depth + 1)
     ELSE LET m == match_unplayed(ld.all, ld.unplayed, ld.played, file.items,
                                  weather_desc)
          IN [st |-> m.st, ret |-> m.ret, depth |-> depth]

\* Mutant of get_random_music_recommendation: the exhausted list is reset but
\* the call is not retried.
get_random_music_recommendation_no_retry(all0, unplayed0, played0, file, pick, depth) ==
  LET ld == IF all0 = <<>>
            THEN load_videos_data(all0, unplayed0, played0, file)
            ELSE [all |-> all0, unplayed |-> unplayed0, played |-> played0]
  IN IF ld.all = <<>>
     THEN [st |-> ld, ret |-> MusicRet("uninitialized", NoVideo), depth |-> depth]
     ELSE IF ld.unplayed = <<>>
     THEN [st |-> reset_videos(ld.all, ld.played),
           ret |-> MusicRet("None", NoVideo), depth |-> depth + 1]
     ELSE LET c == choose_unplayed(ld.all, ld.unplayed, ld.played, pick)
          IN [st |-> c.st, ret |-> c.ret, depth |-> depth]

\* get_random_music_recommendation.
RECURSIVE get_random_music_recommendation(_, _, _, _, _, _)
get_random_music_recommendation(all0, unplayed0, played0, file, pick, depth) ==
  LET ld == IF all0 = <<>>
            THEN load_videos_data(all0, unplayed0, played0, file)
            ELSE [all |-> all0, unplayed |-> unplayed0, played |-> played0]
  IN IF ld.all = <<>>
     THEN [st |-> ld, ret |-> MusicRet("uninitialized", NoVideo), depth |-> depth]
     ELSE IF ld.unplayed = <<>>
     THEN LET rs == reset_videos(ld.all, ld.played)
          IN get_random_music_recommendation(rs.all, rs.unplayed, rs.played,
                                             file, pick, depth + 1)
     ELSE LET c == choose_unplayed(ld.all, ld.unplayed, ld.played, pick)
          IN [st |-> c.st, ret |-> c.ret, depth |-> depth]

\* ------------------------------------------------------- movie_service.py
NoPoster == [stem |-> 0, ext |-> ""]

MovieRet(kind, item) == [kind |-> kind, item |-> item]

\* _load_movie_posters: a no-op once loaded or when the directory is missing;
\* otherwise the directory entries with an image extension, in listing order.
load_movie_posters(all, unrecommended, dir) ==
  IF all # <<>> THEN [all |-> all, unrecommended |-> unrecommended]
  ELSE IF ~dir.exists THEN [all |-> all, unrecommended |-> unrecommended]
  ELSE LET images == SelectSeq(dir.files, LAMBDA f : Lower(f.ext) \in formats)
       IN [all |-> images, unrecommended |-> images]

\* _unrecommended_posters[:] = _all_movie_posters
reset_posters(all) == [all |-> all, unrecommended |-> all]

\* Mutant of TakePoster: the poster is removed from the list of all posters.
TakePoster_from_all(all, unrecommended, poster) ==
  [all |-> ListRemove(all, poster), unrecommended |-> unrecommended]

\* _unrecommended_posters.remove(chosen_poster_filename)
TakePoster(all, unrecommended, poster) ==
  [all |-> all, unrecommended |-> ListRemove(unrecommended, poster)]

\* Mutant of choose_unrecommended: random.choice draws from all posters.
choose_unrecommended_from_all(all, unrecommended, pick) ==
  IF unrecommended # <<>>
  THEN LET chosen_poster_filename == all[((pick - 1) % Len(all)) + 1]
       IN [st |-> TakePoster(all, unrecommended, chosen_poster_filename),
           ret |-> MovieRet("item", chosen_poster_filename)]
  ELSE [st |-> [all |-> all, unrecommended |-> unrecommended],
        ret |-> MovieRet("None", NoPoster)]

\* get_random_movie_poster from `if _unrecommended_posters:` on.
choose_unrecommended(all, unrecommended, pick) ==
  IF unrecommended # <<>>
  THEN LET chosen_poster_filename ==
             unrecommended[((pick - 1) % Len(unrecommended)) + 1]
       IN [st |-> TakePoster(all, unrecommended, chosen_poster_filename),
           ret |-> MovieRet("item", chosen_poster_filename)]
  ELSE [st |-> [all |-> all, unrecommended |-> unrecommended],
        ret |-> MovieRet("None", NoPoster)]

\* get_random_movie_poster.
RECURSIVE get_random_movie_poster(_, _, _, _, _)
get_random_movie_poster(all0, unrecommended0, dir, pick, depth) ==
  LET ld == IF all0 = <<>>
            THEN load_movie_posters(all0, unrecommended0, dir)
            ELSE [all |-> all0, unrecommended |-> unrecommended0]
  IN IF ld.all = <<>>
     THEN [st |-> ld, ret |-> MovieRet("uninitialized", NoPoster), depth |-> depth]
     ELSE IF ld.unrecommended = <<>>
     THEN LET rs == reset_posters(ld.all)
          IN get_random_movie_poster(rs.all, rs.unrecommended, dir, pick, depth + 1)
     ELSE LET c == choose_unrecommended(ld.all, ld.unrecommended, pick)
          IN [st |-> c.st, ret |-> c.ret, depth |-> depth]

\* ----------------------------------------------------- weather_service.py
\* Strings are sequences of characters.  The characters of region names:
\*   "TAI" 臺  "tai" 台  "bei" 北  "shi" 市  "xian" 縣  "gao" 高  "xiong" 雄
\*   "xin" 新  "tao" 桃  "yuan" 園  "zhong" 中  "nan" 南  "ji" 基  "long" 隆
\*   "zhu" 竹  "jia" 嘉  "yi" 義  "miao" 苗  "li" 栗  "zhang" 彰  "hua" 化
\*   "tou" 投  "yun" 雲  "lin" 林  "ping" 屏  "dong" 東  "yi_" 宜  "lan" 蘭
\*   "hua_" 花  "lian" 蓮  "peng" 澎  "hu" 湖  "jin" 金  "men" 門
\*   "lian_" 連  "jiang" 江
TaibeiShi == <<"TAI", "bei", "shi">>
GaoxiongShi == <<"gao", "xiong", "shi">>
JiayiXian == <<"jia", "yi", "xian">>

\* The hardcoded list _get_all_location_names falls back to.
FallbackLocations ==
  << TaibeiShi, <<"xin", "bei", "shi">>, <<"tao", "yuan", "shi">>,
     <<"TAI", "zhong", "shi">>, <<"TAI", "nan", "shi">>, GaoxiongShi,
     <<"ji", "long", "shi">>, <<"xin", "zhu", "shi">>, <<"jia", "yi", "shi">>,
     <<"xin", "zhu", "xian">>, <<"miao", "li", "xian">>,
     <<"zhang", "hua", "xian">>, <<"nan", "tou", "xian">>,
     <<"yun", "lin", "xian">>, JiayiXian, <<"ping", "dong", "xian">>,
     <<"yi_", "lan", "xian">>, <<"hua_", "lian", "xian">>,
     <<"TAI", "dong", "xian">>, <<"peng", "hu", "xian">>,
     <<"jin", "men", "xian">>, <<"lian_", "jiang", "xian">> >>

\* The locationName values of a well-formed answer of the region list source.
RemoteLocations == <<JiayiXian, TaibeiShi, GaoxiongShi>>

\* How a request to the region list source may end: a well-formed answer, an
\* answer with an empty location list, an answer without 'records', a non-2xx
\* status, a timeout.
LocationOutcomes == {"ok", "ok_empty", "no_records", "http_error", "timeout"}

\* How a forecast request may end: a well-formed answer, an answer without
\* 'records', one with an empty location list, one whose location lacks
\* 'weatherElement', a non-2xx status, a timeout.
ForecastOutcomes ==
  {"ok", "no_records", "empty_location", "missing_element", "http_error", "timeout"}

\* The cities asked for: 臺北市, 台北, 高雄市, 台北縣, 台北1
CityInputs ==
  { TaibeiShi, <<"tai", "bei">>, GaoxiongShi, <<"tai", "bei", "xian">>,
    <<"tai", "bei", "1">> }

\* settings.MANUAL_CORRECTIONS: 台北 -> 臺北市
MANUAL_CORRECTIONS(input_city) ==
  IF input_city = <<"tai", "bei">> THEN TaibeiShi ELSE input_city

\* char.isdigit()
IsDigit(char) == char \in {"0", "1", "2", "3", "4", "5", "6", "7", "8", "9"}

\* Mutant of HasDigit: only the first character is tested.
HasDigit_first_char(input) == input # <<>> /\ IsDigit(input[1])

\* any(char.isdigit() for char in city_input)
HasDigit(input) == \E i \in DOMAIN input : IsDigit(input[i])

\* Characters two strings share in order (the longest common subsequence).
RECURSIVE CommonLength(_, _)
CommonLength(s1, s2) ==
  IF s1 = <<>> \/ s2 = <<>> THEN 0
  ELSE IF Head(s1) = Head(s2) THEN 1 + CommonLength(Tail(s1), Tail(s2))
  ELSE LET a == CommonLength(Tail(s1), s2)
           b == CommonLength(s1, Tail(s2))
       IN IF a >= b THEN a ELSE b

\* fuzz.ratio: 100 * 2 * matches / (len(s1) + len(s2)), rounded; 0 for an
\* empty string.
fuzz_ratio(s1, s2) ==
  IF s1 = <<>> \/ s2 = <<>> THEN 0
  ELSE LET total == Len(s1) + Len(s2)
       IN (2 * 200 * CommonLength(s1, s2) + total) \div (2 * total)

\* process.extractOne(query, choices, scorer=fuzz.ratio) on a non-empty list
\* of choices: the pair (choice, score) of the first choice with the highest
\* score.
RECURSIVE BestChoice(_, _, _)
BestChoice(query, choices, best) ==
  IF choices = <<>> THEN best
  ELSE LET score == fuzz_ratio(query, Head(choices))
       IN IF best = <<>> \/ score > best[2]
          THEN BestChoice(query, Tail(choices), <<Head(choices), score>>)
          ELSE BestChoice(query, Tail(choices), best)

extractOne(query, choices) == BestChoice(query, choices, <<>>)

\* weather_service.py:63
CORRECTION_THRESHOLD == 75

NoCity == <<>>

\* Mutant of auto_correct_city: the exact comparison with the candidates is
\* left out.
auto_correct_city_fuzzy_only(input_city, available_locations) ==
  LET corrected == MANUAL_CORRECTIONS(input_city)
  IN IF available_locations # <<>>
     THEN LET found == extractOne(corrected, available_locations)
          IN IF Len(found) # 3
             THEN [kind |-> "ValueError", city |-> NoCity]
             ELSE IF found[2] >= CORRECTION_THRESHOLD
             THEN [kind |-> "city", city |-> found[1]]
             ELSE [kind |-> "None", city |-> NoCity]
     ELSE [kind |-> "None", city |-> NoCity]

\* Mutant of auto_correct_city: settings.MANUAL_CORRECTIONS is not consulted.
auto_correct_city_without_alias(input_city, available_locations) ==
  LET corrected == input_city
  IN IF corrected \in Range(available_locations)
     THEN [kind |-> "city", city |-> corrected]
     ELSE IF available_locations # <<>>
     THEN LET found == extractOne(corrected, available_locations)
          IN IF Len(found) # 3
             THEN [kind |-> "ValueError", city |-> NoCity]
             ELSE IF found[2] >= CORRECTION_THRESHOLD
             THEN [kind |-> "city", city |-> found[1]]
             ELSE [kind |-> "None", city |-> NoCity]
     ELSE [kind |-> "None", city |-> NoCity]

\* _auto_correct_city: the corrected name ("city"), None, or the ValueError of
\* `match, score, _ = process.extractOne(...)`, which unpacks three values
\* from the pair extractOne returns for a list of choices.
auto_correct_city(input_city, available_locations) ==
  LET corrected == MANUAL_CORRECTIONS(input_city)
  IN IF corrected \in Range(available_locations)
     THEN [kind |-> "city", city |-> corrected]
     ELSE IF available_locations # <<>>
     THEN LET found == extractOne(corrected, available_locations)
          IN IF Len(found) # 3
             THEN [kind |-> "ValueError", city |-> NoCity]
             ELSE IF found[2] >= CORRECTION_THRESHOLD
             THEN [kind |-> "city", city |-> found[1]]
             ELSE [kind |-> "None", city |-> NoCity]
     ELSE [kind |-> "None", city |-> NoCity]

\* _get_all_location_names after its request has ended: the names of the
\* answer, or the hardcoded list when the request failed or lacks 'records'.
fetched_location_names(outcome) ==
  CASE outcome = "ok" -> RemoteLocations
    [] outcome = "ok_empty" -> <<>>
    [] OTHER -> FallbackLocations

\* Weather descriptions: 晴時多雲, 陰短暫雨, N/A, 無效輸入
DescSunny == <<"qing", "shi", "duo", "yun">>
DescRain == <<"yin", "duan", "zan", "yu">>
DescNA == <<"N", "/", "A">>
DescInvalid == <<"wu", "xiao", "shu", "ru">>

\* settings.WEATHER_KEYWORDS_MAP, in its order: 雨 -> 雨, 多雲 -> 多雲
WEATHER_KEYWORDS_MAP ==
  << [keyword |-> <<"yu">>, anim_type |-> "yu"],
     [keyword |-> <<"duo", "yun">>, anim_type |-> "duo_yun"] >>

\* keyword in weather_desc
Contains(text, keyword) ==
  \E i \in 0..(Len(text) - Len(keyword)) :
     \A k \in 1..Len(keyword) : text[i + k] = keyword[k]

RECURSIVE FirstKeyword(_, _)
FirstKeyword(map, weather_desc) ==
  IF map = <<>> THEN "none"
  ELSE IF Contains(weather_desc, Head(map).keyword) THEN Head(map).anim_type
  ELSE FirstKeyword(Tail(map), weather_desc)

\* Mutant of classify_weather_type: the fixed keywords are tested before
\* settings.WEATHER_KEYWORDS_MAP.
classify_weather_type_fixed_first(weather_desc) ==
  IF Contains(weather_desc, <<"qing">>) THEN "qing"
  ELSE IF Contains(weather_desc, <<"yu">>) THEN "yu"
  ELSE IF Contains(weather_desc, <<"yin">>) THEN "yin"
  ELSE IF Contains(weather_desc, <<"duo", "yun">>) THEN "duo_yun"
  ELSE IF Contains(weather_desc, <<"xue">>) THEN "xue"
  ELSE LET mapped == FirstKeyword(WEATHER_KEYWORDS_MAP, weather_desc)
       IN IF mapped # "none" THEN mapped ELSE "qing"

\* _classify_weather_type
classify_weather_type(weather_desc) ==
  LET mapped == FirstKeyword(WEATHER_KEYWORDS_MAP, weather_desc)
  IN IF mapped # "none" THEN mapped
     ELSE IF Contains(weather_desc, <<"qing">>) THEN "qing"
     ELSE IF Contains(weather_desc, <<"yu">>) THEN "yu"
     ELSE IF Contains(weather_desc, <<"yin">>) THEN "yin"
     ELSE IF Contains(weather_desc, <<"duo", "yun">>) THEN "duo_yun"
     ELSE IF Contains(weather_desc, <<"xue">>) THEN "xue"
     ELSE "qing"

\* WeatherResponse.  display_text is kept as the parts it is formatted from.
WeatherResponse(city_name, weather_description, message, time_desc, pop, weather_type) ==
  [city_name |-> city_name,
   weather_description |-> weather_description,
   display_text |-> [message |-> message, time_desc |-> time_desc, pop |-> pop],
   current_weather_type |-> weather_type]

NoResponse == WeatherResponse(NoCity, <<>>, "", "", "", "")

\* The time slots of a well-formed forecast answer (weatherElement[0].time)
\* and of its PoP element; hour is the hour of startTime.
ForecastTimes ==
  << [startTime |-> 0, endTime |-> 600, hour |-> 6, parameterName |-> DescSunny],
     [startTime |-> 600, endTime |-> 1200, hour |-> 18, parameterName |-> DescRain] >>

PoPTimes == << [startTime |-> 0, endTime |-> 600, parameterName |-> "20"] >>

Abs(x) == IF x < 0 THEN -x ELSE x

\* min(time_elements, key=lambda x: abs(startTime - datetime.now()))
RECURSIVE NearestSlot(_, _, _)
NearestSlot(slots, t, best) ==
  IF slots = <<>> THEN best
  ELSE IF Abs(Head(slots).startTime - t) < Abs(best.startTime - t)
  THEN NearestSlot(Tail(slots), t, Head(slots))
  ELSE NearestSlot(Tail(slots), t, best)

TimeDesc(hour) ==
  IF 0 <= hour /\ hour < 6 THEN "midnight_to_morning"
  ELSE IF 6 <= hour /\ hour < 12 THEN "morning_to_noon"
  ELSE IF 12 <= hour /\ hour < 18 THEN "noon_to_evening"
  ELSE "evening_to_midnight"

\* The loop over pop_data['time']
RECURSIVE PoPOf(_, _)
PoPOf(pops, forecast) ==
  IF pops = <<>> THEN "N/A"
  ELSE IF Head(pops).startTime = forecast.startTime
          /\ Head(pops).endTime = forecast.endTime
  THEN Head(pops).parameterName
  ELSE PoPOf(Tail(pops), forecast)

\* weather_service.py:108
CACHE_SECONDS == 600

\* `corrected_city in _weather_data_cache` and the age test of the entry
IsFresh_inclusive(cache, city, t) ==
  /\ city \in DOMAIN cache
  /\ t - cache[city].timestamp <= CACHE_SECONDS

IsFresh(cache, city, t) ==
  /\ city \in DOMAIN cache
  /\ t - cache[city].timestamp < CACHE_SECONDS

process_forecast_stores_all(city, outcome, t) ==
  CASE outcome = "ok" ->
         LET forecast == NearestSlot(Tail(ForecastTimes), t, Head(ForecastTimes))
             desc == forecast.parameterName
         IN [stored |-> TRUE,
             response |-> WeatherResponse(city, desc, "forecast",
                            TimeDesc(forecast.hour), PoPOf(PoPTimes, forecast),
                            classify_weather_type(desc))]
    [] outcome \in {"no_records", "empty_location"} ->
         [stored |-> TRUE,
          response |-> WeatherResponse(city, DescNA, "structure_anomaly", "", "", "qing")]
    [] OTHER ->
         [stored |-> TRUE,
          response |-> WeatherResponse(city, DescNA, "processing_error", "", "", "qing")]

\* _weather_data_cache[corrected_city] = {'response': ..., 'timestamp': now}

\* get_current_weather from the end of the forecast request on: the response
\* returned, and whether it is also stored in the cache.
process_forecast(city, outcome, t) ==
  CASE outcome = "ok" ->
         LET forecast == NearestSlot(Tail(ForecastTimes), t, Head(ForecastTimes))
             desc == forecast.parameterName
         IN [stored |-> TRUE,
             response |-> WeatherResponse(city, desc, "forecast",
                            TimeDesc(forecast.hour), PoPOf(PoPTimes, forecast),
                            classify_weather_type(desc))]
    [] outcome \in {"no_records", "empty_location"} ->
         [stored |-> FALSE,
          response |-> WeatherResponse(city, DescNA, "structure_anomaly", "", "", "qing")]
    [] OTHER ->
         [stored |-> FALSE,
          response |-> WeatherResponse(city, DescNA, "processing_error", "", "", "qing")]

\* Mutant of CachePut: the cache is left with the new entry only.
CachePut_drops_others(cache, city, resp, t) ==
  [c \in {city} |-> [response |-> resp, timestamp |-> t]]

\* _weather_data_cache[corrected_city] = {'response': ..., 'timestamp': now}
CachePut(cache, city, resp, t) ==
  [c \in DOMAIN cache \cup {city} |->
     IF c = city THEN [response |-> resp, timestamp |-> t] ELSE cache[c]]

\* ------------------------------------------------- what the requests served
\* The items a service result carries: one, or none.
Served(ret) == IF ret.kind = "item" THEN {ret.item} ELSE {}

NoCycle == [x \in {} |-> 0]

\* Serves per item since the last refill (or since load), counted up to 2.
TrackCycle(cycle, items, did_refill, ret) ==
  [x \in items |->
     LET base == IF did_refill \/ x \notin DOMAIN cycle THEN 0 ELSE cycle[x]
     IN IF x \in Served(ret) THEN Min2(base + 1, 2) ELSE base]

\* Items served since load, counted up to |universe| + 1.
TrackCount(count, items, ret) ==
  IF ret.kind = "item" THEN Min2(count + 1, Cardinality(items) + 1) ELSE count

\* ------------------------------------------------------------ routes.py
\* The reply of a route: the service's result, the route's own reply when the
\* service returned None ("not_found"), or the exception leaving the handler.
\* desc is the weather description the message of a /recommend_music reply
\* quotes.
Reply(route, desc, ret) ==
  [route |-> route,
   kind |-> IF ret.kind = "None" THEN "not_found" ELSE ret.kind,
   item |-> ret.item,
   desc |-> IF ret.kind \in {"item", "None"} THEN desc ELSE "",
   raised |-> ret.kind = "ValueError"]

\* ------------------------------------------------------------------- Init
VideoEntries == [tags : TagLists, played : BOOLEAN]

VideoFiles ==
  {[exists |-> FALSE, items |-> <<>>]} \cup
  {[exists |-> TRUE, items |-> s] :
     s \in UNION {[1..n -> VideoEntries] : n \in 0..MaxVideos}}

PosterDirs ==
  {[exists |-> FALSE, files |-> <<>>]} \cup
  {[exists |-> TRUE, files |-> [i \in DOMAIN e |-> [stem |-> i, ext |-> e[i]]]] :
     e \in UNION {[1..n -> Exts] : n \in 0..MaxFiles}}

\* One particular data file and one particular poster directory.
SampleVideoFile ==
  [exists |-> TRUE,
   items |-> <<[tags |-> <<"xia_yu", "duo_yun">>, played |-> FALSE]>>]

SamplePosterDir ==
  [exists |-> TRUE,
   files |-> <<[stem |-> 1, ext |-> ".JPG"], [stem |-> 2, ext |-> ".txt"]>>]

\* The two services share no state: every data file is explored beside the
\* sample directory, and every directory beside the sample data file.
Handlers == 1..MaxHandlers

\* What a step of a weather request did: step is "invalid_input",
\* "unrecognized", "cache_hit", "stored" or "fetch_failed" for a request that
\* returned response, "raised" for one that ended in an exception,
\* "locations_requested" or "fetch_issued" for one that is now suspended in
\* _fetch_data_from_cwa.  input is the city the request was given, city the
\* name the response or the forecast request is for.
WeatherEvent(h, step, input, city, resp) ==
  [handler |-> h, step |-> step, input |-> input, city |-> city,
   response |-> resp, raised |-> step = "raised"]

\* The module globals as the imports leave them.
PoolsEmpty ==
  /\ all_available_videos = <<>>
  /\ unplayed_videos = <<>>
  /\ played = <<>>
  /\ all_movie_posters = <<>>
  /\ unrecommended_posters = <<>>
  /\ response = [route |-> "none", kind |-> "none", item |-> NoVideo, desc |-> "",
                 raised |-> FALSE]
  /\ music_count = 0
  /\ music_seen = {}
  /\ music_cycle = NoCycle
  /\ music_refilled = FALSE
  /\ music_only_random = TRUE
  /\ movie_count = 0
  /\ movie_seen = {}
  /\ movie_cycle = NoCycle
  /\ movie_refilled = FALSE

WeatherEmpty ==
  /\ location_names = <<>>
  /\ weather_data_cache = [c \in {} |-> NoResponse]
  /\ now = 0
  /\ pc = [h \in Handlers |-> "idle"]
  /\ city_input = [h \in Handlers |-> NoCity]
  /\ corrected_city = [h \in Handlers |-> NoCity]
  /\ weather_event = WeatherEvent(0, "none", NoCity, NoCity, NoResponse)
  /\ forecast_requests = 0
  /\ lookups = 0

\* No function is applied on its own.
NoCall == [fn |-> "none"]

InitPools ==
  /\ started = FALSE
  /\ call = NoCall
  /\ \/ yt_videos_json \in VideoFiles /\ poster_dir = SamplePosterDir
     \/ yt_videos_json = SampleVideoFile /\ poster_dir \in PosterDirs
  /\ PoolsEmpty
  /\ WeatherEmpty

InitWeather ==
  /\ started = FALSE
  /\ call = NoCall
  /\ yt_videos_json = SampleVideoFile
  /\ poster_dir = SamplePosterDir
  /\ PoolsEmpty
  /\ WeatherEmpty

\* ---------------------------------------------------------------- actions
\* main.py lifespan: both loaders run before the first request is taken.
lifespan ==
  /\ ~started
  /\ started' = TRUE
  /\ LET m == load_videos_data(all_available_videos, unplayed_videos, played,
                               yt_videos_json)
         p == load_movie_posters(all_movie_posters, unrecommended_posters,
                                 poster_dir)
     IN /\ all_available_videos' = m.all
        /\ unplayed_videos' = m.unplayed
        /\ played' = m.played
        /\ music_cycle' = [v \in Range(m.all) |-> 0]
        /\ all_movie_posters' = p.all
        /\ unrecommended_posters' = p.unrecommended
        /\ movie_cycle' = [f \in Range(p.all) |-> 0]
  /\ UNCHANGED <<response, yt_videos_json, poster_dir, music_count, music_seen,
                 music_refilled, music_only_random, movie_count, movie_seen,
                 movie_refilled, weather_vars, call>>

\* The state and the bookkeeping after a music service call returned r.
MusicDone(route, desc, r) ==
  /\ all_available_videos' = r.st.all
  /\ unplayed_videos' = r.st.unplayed
  /\ played' = r.st.played
  /\ response' = Reply(route, desc, r.ret)
  /\ music_count' = TrackCount(music_count, Range(r.st.all), r.ret)
  /\ music_seen' = music_seen \cup Served(r.ret)
  /\ music_cycle' = TrackCycle(music_cycle, Range(r.st.all), r.depth > 0, r.ret)
  /\ music_refilled' = (music_refilled \/ r.depth > 0)
  /\ UNCHANGED <<started, yt_videos_json, movie_vars, weather_vars, call>>

\* GET /recommend_music?desc=...
recommend_music ==
  /\ started
  /\ \E desc \in Queries :
       MusicDone("recommend_music", desc,
                 find_and_recommend_music_by_desc(all_available_videos,
                    unplayed_videos, played, yt_videos_json, desc, 0))
  /\ music_only_random' = FALSE

\* GET /random_music
get_random_music ==
  /\ started
  /\ \E pick \in 1..MaxVideos :
       MusicDone("random_music", "",
                 get_random_music_recommendation(all_available_videos,
                    unplayed_videos, played, yt_videos_json, pick, 0))
  /\ UNCHANGED music_only_random

\* GET /random_movie
get_random_movie ==
  /\ started
  /\ \E pick \in 1..MaxFiles :
       LET r == get_random_movie_poster(all_movie_posters, unrecommended_posters,
                                        poster_dir, pick, 0)
       IN /\ all_movie_posters' = r.st.all
          /\ unrecommended_posters' = r.st.unrecommended
          /\ response' = Reply("random_movie", "", r.ret)
          /\ movie_count' = TrackCount(movie_count, Range(r.st.all), r.ret)
          /\ movie_seen' = movie_seen \cup Served(r.ret)
          /\ movie_cycle' = TrackCycle(movie_cycle, Range(r.st.all), r.depth > 0, r.ret)
          /\ movie_refilled' = (movie_refilled \/ r.depth > 0)
  /\ UNCHANGED <<started, poster_dir, music_vars, weather_vars, call>>

NextPools ==
  \/ lifespan
  \/ recommend_music
  \/ get_random_music
  \/ get_random_movie

SpecPools == InitPools /\ [][NextPools]_vars

\* ------------------------------------------------------- weather lookups
\* The request of handler h ends here with this event.
Finish(h, step, input, city, resp) ==
  /\ pc' = [pc EXCEPT ![h] = "idle"]
  /\ city_input' = [city_input EXCEPT ![h] = NoCity]
  /\ corrected_city' = [corrected_city EXCEPT ![h] = NoCity]
  /\ weather_event' = WeatherEvent(h, step, input, city, resp)

\* get_current_weather from `corrected_city = _auto_correct_city(...)` to the
\* return of a cached response or the start of the forecast request.
CorrectAndCheck(h, input, names) ==
  LET c == auto_correct_city(input, names)
  IN /\ CASE c.kind = "ValueError" ->
               /\ Finish(h, "raised", input, input, NoResponse)
               /\ UNCHANGED forecast_requests
          [] c.kind = "None" ->
               /\ Finish(h, "unrecognized", input, input,
                         WeatherResponse(input, DescInvalid, "unrecognized", "", "", "qing"))
               /\ UNCHANGED forecast_requests
          [] OTHER ->
               IF IsFresh(weather_data_cache, c.city, now)
               THEN /\ Finish(h, "cache_hit", input, c.city,
                              weather_data_cache[c.city].response)
                    /\ UNCHANGED forecast_requests
               ELSE /\ pc' = [pc EXCEPT ![h] = "await_forecast"]
                    /\ city_input' = [city_input EXCEPT ![h] = input]
                    /\ corrected_city' = [corrected_city EXCEPT ![h] = c.city]
                    /\ weather_event' = WeatherEvent(h, "fetch_issued", input, c.city, NoResponse)
                    /\ forecast_requests' = forecast_requests + 1
     /\ UNCHANGED weather_data_cache

\* GET /weather?city=...: get_current_weather up to its first suspension.
StartLookup ==
  /\ started
  /\ lookups < MaxLookups
  /\ \E h \in Handlers, input \in CityInputs :
       /\ pc[h] = "idle"
       /\ IF HasDigit(input)
          THEN /\ Finish(h, "invalid_input", input, input,
                         WeatherResponse(input, DescInvalid, "no_digits", "", "", "qing"))
               /\ UNCHANGED <<location_names, weather_data_cache, forecast_requests>>
          ELSE IF location_names # <<>>
          THEN /\ CorrectAndCheck(h, input, location_names)
               /\ UNCHANGED location_names
          ELSE /\ pc' = [pc EXCEPT ![h] = "await_locations"]
               /\ city_input' = [city_input EXCEPT ![h] = input]
               /\ weather_event' = WeatherEvent(h, "locations_requested", input, input, NoResponse)
               /\ UNCHANGED <<location_names, weather_data_cache, forecast_requests,
                              corrected_city>>
  /\ lookups' = lookups + 1
  /\ UNCHANGED <<started, now, pool_vars, call>>

\* The region list request of a suspended lookup ends.
ResumeLocations ==
  /\ \E h \in Handlers, outcome \in LocationOutcomes :
       /\ pc[h] = "await_locations"
       /\ location_names' = fetched_location_names(outcome)
       /\ CorrectAndCheck(h, city_input[h], location_names')
  /\ UNCHANGED <<started, now, lookups, pool_vars, call>>

\* The forecast request of a suspended lookup ends.
ResumeForecast ==
  /\ \E h \in Handlers, outcome \in ForecastOutcomes :
       /\ pc[h] = "await_forecast"
       /\ LET r == process_forecast(corrected_city[h], outcome, now)
          IN /\ weather_data_cache' =
                  IF r.stored
                  THEN CachePut(weather_data_cache, corrected_city[h], r.response, now)
                  ELSE weather_data_cache
             /\ Finish(h, IF r.stored THEN "stored" ELSE "fetch_failed",
                       city_input[h], corrected_city[h], r.response)
  /\ UNCHANGED <<started, now, lookups, location_names, forecast_requests,
                 pool_vars, call>>

\* Time passes.
Tick ==
  /\ now < MaxTicks * TickSeconds
  /\ now' = now + TickSeconds
  /\ weather_event' = WeatherEvent(0, "tick", NoCity, NoCity, NoResponse)
  /\ UNCHANGED <<started, pool_vars, location_names, weather_data_cache, pc,
                 city_input, corrected_city, forecast_requests, lookups, call>>

NextWeather ==
  \/ lifespan
  \/ StartLookup
  \/ ResumeLocations
  \/ ResumeForecast
  \/ Tick

SpecWeather == InitWeather /\ [][NextWeather]_vars

\* ------------------------------------------- the name corrector on its own
\* Names given to _auto_correct_city as input or as candidates:
\* 臺北市, 台北, 高雄市, 台北縣
CandidateNames ==
  {TaibeiShi, <<"tai", "bei">>, GaoxiongShi, <<"tai", "bei", "xian">>}

CandidateLists == UNION {[1..n -> CandidateNames] : n \in 0..MaxCandidates}

NoCorrection == [kind |-> "none", city |-> NoCity]

InitCorrector ==
  /\ started = FALSE
  /\ yt_videos_json = SampleVideoFile
  /\ poster_dir = SamplePosterDir
  /\ PoolsEmpty
  /\ WeatherEmpty
  /\ \E input_city \in CandidateNames, available_locations \in CandidateLists :
       call = [fn |-> "auto_correct_city", stage |-> 0,
               input_city |-> input_city,
               available_locations |-> available_locations,
               result |-> NoCorrection, again |-> NoCorrection]

\* corrected_city = _auto_correct_city(input_city, available_locations)
correct_city ==
  /\ call.stage = 0
  /\ call' = [call EXCEPT !.stage = 1,
                !.result = auto_correct_city(call.input_city,
                                             call.available_locations)]
  /\ UNCHANGED <<started, pool_vars, weather_vars>>

\* The corrector applied to the name it returned.
correct_again ==
  /\ call.stage = 1
  /\ call.result.kind = "city"
  /\ call' = [call EXCEPT !.stage = 2,
                !.again = auto_correct_city(call.result.city,
                                            call.available_locations)]
  /\ UNCHANGED <<started, pool_vars, weather_vars>>

NextCorrector ==
  \/ correct_city
  \/ correct_again

SpecCorrector == InitCorrector /\ [][NextCorrector]_vars

\* --------------------------------------------------- the loaders on their own
\* Data files that differ in their played flags only.
LoaderVideoFiles ==
  {[exists |-> FALSE, items |-> <<>>]} \cup
  {[exists |-> TRUE,
    items |-> [i \in DOMAIN f |-> [tags |-> <<"xia_yu", "duo_yun">>, played |-> f[i]]]] :
     f \in UNION {[1..n -> BOOLEAN] : n \in 0..MaxVideos}}

InitLoader ==
  /\ started = FALSE
  /\ call = NoCall
  /\ \/ yt_videos_json \in LoaderVideoFiles /\ poster_dir = SamplePosterDir
     \/ yt_videos_json = SampleVideoFile /\ poster_dir \in PosterDirs
  /\ PoolsEmpty
  /\ WeatherEmpty

\* A call of a loader: which one, and the lengths of its two lists before it.
LoaderCall(fn, all, remaining) ==
  [fn |-> fn, universe |-> Len(all), remaining |-> Len(remaining)]

\* _load_videos_data(), called at any time after startup.
call_load_videos_data ==
  /\ started
  /\ LET m == load_videos_data(all_available_videos, unplayed_videos, played,
                               yt_videos_json)
     IN /\ all_available_videos' = m.all
        /\ unplayed_videos' = m.unplayed
        /\ played' = m.played
        /\ music_cycle' = [v \in Range(m.all) |->
                             IF v \in DOMAIN music_cycle THEN music_cycle[v] ELSE 0]
  /\ call' = LoaderCall("_load_videos_data", all_available_videos, unplayed_videos)
  /\ UNCHANGED <<started, response, yt_videos_json, music_count, music_seen,
                 music_refilled, music_only_random, movie_vars, weather_vars>>

\* _load_movie_posters(), called at any time after startup.
call_load_movie_posters ==
  /\ started
  /\ LET p == load_movie_posters(all_movie_posters, unrecommended_posters,
                                 poster_dir)
     IN /\ all_movie_posters' = p.all
        /\ unrecommended_posters' = p.unrecommended
        /\ movie_cycle' = [f \in Range(p.all) |->
                             IF f \in DOMAIN movie_cycle THEN movie_cycle[f] ELSE 0]
  /\ call' = LoaderCall("_load_movie_posters", all_movie_posters,
                        unrecommended_posters)
  /\ UNCHANGED <<started, response, poster_dir, movie_count, movie_seen,
                 movie_refilled, music_vars, weather_vars>>

NextLoader ==
  \/ NextPools
  \/ call_load_videos_data
  \/ call_load_movie_posters

SpecLoader == InitLoader /\ [][NextLoader]_vars

\* ---------------------------------------------- the classifier on its own
\* Characters of weather descriptions: 晴 雨 陰 多 雲 雪 時
DescChars == {"qing", "yu", "yin", "duo", "yun", "xue", "shi"}

Descriptions == UNION {[1..n -> DescChars] : n \in 0..MaxDescLen}

InitClassifier ==
  /\ started = FALSE
  /\ yt_videos_json = SampleVideoFile
  /\ poster_dir = SamplePosterDir
  /\ PoolsEmpty
  /\ WeatherEmpty
  /\ \E weather_desc \in Descriptions :
       call = [fn |-> "_classify_weather_type", stage |-> 0,
               weather_desc |-> weather_desc, result |-> ""]

\* weather_type = _classify_weather_type(desc)
classify ==
  /\ call.stage = 0
  /\ call' = [call EXCEPT !.stage = 1,
                !.result = classify_weather_type(call.weather_desc)]
  /\ UNCHANGED <<started, pool_vars, weather_vars>>

NextClassifier == classify

SpecClassifier == InitClassifier /\ [][NextClassifier]_vars

\* ================================================================ claims
NumVideos == Len(all_available_videos)
NumPosters == Len(all_movie_posters)

NoDuplicates(list) ==
  \A i, j \in DOMAIN list : i # j => list[i] # list[j]

RECURSIVE SumOver(_, _)
SumOver(f, dom) ==
  IF dom = {} THEN 0
  ELSE LET x == CHOOSE y \in dom : TRUE IN f[x] + SumOver(f, dom \ {x})

\* Entries the data file marks played: they are held back until the first refill.
FilePlayed == {v \in Range(all_available_videos) : yt_videos_json.items[v].played}
HeldBack == IF music_refilled THEN {} ELSE FilePlayed
\* Length of the first cycle of the music pool: the entries not marked played,
\* or the whole list when none is left over (the first call refills).
FirstCycle ==
  IF Cardinality(FilePlayed) = NumVideos THEN NumVideos
  ELSE NumVideos - Cardinality(FilePlayed)

\* The step just taken was a call of ...
ByMatchStep == response'.route = "recommend_music"
RandomMusicStep == response'.route = "random_music"
MusicStep == ByMatchStep \/ RandomMusicStep
MovieStep == response'.route = "random_movie"
NoMatchStep == ByMatchStep /\ response'.kind = "not_found"

\* ---------------------------------------------------------------- C1
\* C1 (as claimed): whenever find_and_recommend_music_by_desc returns None,
\* the unplayed list and every played flag are as they were before the call,
\* also when the list was empty at the start of the call.
C1_NoMatchNeverMutates ==
  [][NoMatchStep => unplayed_videos' = unplayed_videos /\ played' = played]_vars

\* C1 (amended): a call that returns None leaves the unplayed list and the
\* played flags as they were when the list was not empty at the start of the
\* call; when it was empty, the call leaves the list refilled to the whole
\* universe with every played flag cleared.
C1_NoMatchFrame ==
  [][NoMatchStep =>
       IF unplayed_videos = <<>>
       THEN /\ unplayed_videos' = all_available_videos'
            /\ \A v \in DOMAIN played' : ~played'[v]
       ELSE unplayed_videos' = unplayed_videos /\ played' = played]_vars

\* None was returned by a call that found part of the universe still unplayed.
C1_Witness ==
  /\ response.route = "recommend_music"
  /\ response.kind = "not_found"
  /\ unplayed_videos # <<>>
  /\ Len(unplayed_videos) < NumVideos

\* ---------------------------------------------------------------- C2
\* C2 (as claimed): while only serve_random has been called, the first
\* |universe| calls after load return pairwise distinct items, and after them
\* the list is empty, so that the next call refills; for both pools.
C2_FirstUniverseCallsDistinct ==
  /\ (music_only_random /\ NumVideos > 0) =>
       /\ music_count <= NumVideos => Cardinality(music_seen) = music_count
       /\ music_count = NumVideos => unplayed_videos = <<>>
  /\ NumPosters > 0 =>
       /\ movie_count <= NumPosters => Cardinality(movie_seen) = movie_count
       /\ movie_count = NumPosters => unrecommended_posters = <<>>

\* C2 (amended): while only serve_random has been called, the calls of the
\* first cycle return pairwise distinct items, one per item the loader left
\* in remaining (for videos: the entries the data file does not mark played,
\* or all of them when none is left; for posters: all), after which the list
\* is empty and the next call refills; and in every cycle each item has been
\* returned exactly once if it is no longer in remaining and not at all if
\* it still is.
C2_EachCycleServesOnce ==
  /\ (music_only_random /\ NumVideos > 0) =>
       /\ music_count <= FirstCycle => Cardinality(music_seen) = music_count
       /\ music_count = FirstCycle => unplayed_videos = <<>>
       /\ \A v \in Range(all_available_videos) :
            music_cycle[v] =
              IF v \in Range(unplayed_videos) \/ v \in HeldBack THEN 0 ELSE 1
  /\ NumPosters > 0 =>
       /\ movie_count <= NumPosters => Cardinality(movie_seen) = movie_count
       /\ movie_count = NumPosters => unrecommended_posters = <<>>
       /\ \A f \in Range(all_movie_posters) :
            movie_cycle[f] = IF f \in Range(unrecommended_posters) THEN 0 ELSE 1

\* Three posters were each returned once, and a fourth call has refilled.
C2_Witness ==
  /\ NumPosters = 3
  /\ movie_seen = Range(all_movie_posters)
  /\ movie_count = 4
  /\ movie_refilled
  /\ Len(unrecommended_posters) = 2

\* ---------------------------------------------------------------- C3
\* C3 (as claimed): the serve that is the |universe|-th successful one since
\* load leaves remaining empty, and the serve call after |universe| successful
\* serves leaves |universe| - 1 items; for both pools, in either mode.
C3_RefillAfterUniverseServes ==
  [][/\ (MusicStep /\ all_available_videos' # <<>>) =>
          /\ (music_count' = NumVideos' /\ music_count = NumVideos' - 1)
                => unplayed_videos' = <<>>
          /\ music_count = NumVideos'
                => Len(unplayed_videos') = NumVideos' - 1
     /\ (MovieStep /\ all_movie_posters' # <<>>) =>
          /\ (movie_count' = NumPosters' /\ movie_count = NumPosters' - 1)
                => unrecommended_posters' = <<>>
          /\ movie_count = NumPosters'
                => Len(unrecommended_posters') = NumPosters' - 1]_vars

\* C3 (amended): counted from the last refill (or from load, where the
\* entries the data file marks played count as served), remaining holds
\* |universe| minus the number of items served since, so it is empty after
\* exactly that many successful serves; a serve call that finds remaining
\* empty refills it and leaves |universe| - 1 items if it returns an item and
\* all |universe| items if it returns no item; a call that finds it non-empty
\* removes at most the item it returns.
C3_RefillInvariant ==
  [][/\ (MusicStep /\ all_available_videos' # <<>>) =>
          LET took == IF response'.kind = "item" THEN 1 ELSE 0
          IN /\ Len(unplayed_videos')
                  + SumOver(music_cycle', DOMAIN music_cycle')
                  + Cardinality(HeldBack') = NumVideos'
             /\ unplayed_videos = <<>>
                  => Len(unplayed_videos') = NumVideos' - took
             /\ unplayed_videos # <<>>
                  => Len(unplayed_videos') = Len(unplayed_videos) - took
     /\ (MovieStep /\ all_movie_posters' # <<>>) =>
          /\ Len(unrecommended_posters')
               + SumOver(movie_cycle', DOMAIN movie_cycle') = NumPosters'
          /\ unrecommended_posters = <<>>
               => Len(unrecommended_posters') = NumPosters' - 1
          /\ unrecommended_posters # <<>>
               => Len(unrecommended_posters') = Len(unrecommended_posters) - 1]_vars

\* More than |universe| videos were served: the list was refilled by a call
\* that returned an item and left |universe| - 1.
C3_Witness ==
  /\ NumVideos = 2
  /\ music_count = 3
  /\ music_refilled
  /\ response.kind = "item"
  /\ response.route \in {"recommend_music", "random_music"}
  /\ Len(unplayed_videos) = 1

\* ---------------------------------------------------------------- C4
\* What the loaders build from the data file and the directory.
LoadedVideos == load_videos_data(<<>>, <<>>, <<>>, yt_videos_json).all
LoadedPosters == load_movie_posters(<<>>, <<>>, poster_dir).all

\* C4: in every state remaining is a sub-collection of universe without
\* duplicates, and the universe is what the loader built; for both pools.
C4_RemainingWithinUniverse ==
  /\ Range(unplayed_videos) \subseteq Range(all_available_videos)
  /\ NoDuplicates(unplayed_videos)
  /\ started => all_available_videos = LoadedVideos
  /\ Range(unrecommended_posters) \subseteq Range(all_movie_posters)
  /\ NoDuplicates(unrecommended_posters)
  /\ started => all_movie_posters = LoadedPosters

\* After a refill, part of the three posters is out and part still in.
C4_Witness ==
  /\ NumPosters = 3
  /\ movie_refilled
  /\ Len(unrecommended_posters) = 1

\* ---------------------------------------------------------------- C5
\* C5: once the universe is non-empty, a serve_random call returns an item of
\* the universe, taken from remaining (from the whole universe when remaining
\* was empty), and remaining afterwards is what it drew from without exactly
\* that item; for both pools.
C5_RandomAlwaysServes ==
  [][/\ (RandomMusicStep /\ all_available_videos' # <<>>) =>
          LET from == IF unplayed_videos = <<>> THEN all_available_videos'
                      ELSE unplayed_videos
          IN /\ response'.kind = "item"
             /\ ~response'.raised
             /\ response'.item \in Range(from)
             /\ Range(unplayed_videos') = Range(from) \ {response'.item}
             /\ Len(unplayed_videos') = Len(from) - 1
     /\ (MovieStep /\ all_movie_posters' # <<>>) =>
          LET from == IF unrecommended_posters = <<>> THEN all_movie_posters'
                      ELSE unrecommended_posters
          IN /\ response'.kind = "item"
             /\ ~response'.raised
             /\ response'.item \in Range(from)
             /\ Range(unrecommended_posters') = Range(from) \ {response'.item}
             /\ Len(unrecommended_posters') = Len(from) - 1]_vars

\* /random_music alone has exhausted and refilled the list and served again.
C5_Witness ==
  /\ music_only_random
  /\ music_refilled
  /\ NumVideos = 2
  /\ response.route = "random_music"
  /\ response.kind = "item"
  /\ response.item \in Range(all_available_videos)

\* ---------------------------------------------------------------- C9
\* C9: find_and_recommend_music_by_desc returns an item or None for every
\* loaded pool and query, and never raises.
C9_ByMatchNeverRaises ==
  response.route = "recommend_music" =>
    /\ ~response.raised
    /\ response.kind \in {"item", "not_found", "uninitialized"}

\* ---------------------------------------------------------------- C10
\* C10: between two refills no item is returned by two servings, and an item
\* a serving has taken is not in remaining for any later serving before the
\* refill; for the requests of both pools in any order.
C10_NoItemServedTwice ==
  /\ \A v \in DOMAIN music_cycle :
       /\ music_cycle[v] <= 1
       /\ music_cycle[v] = 1 => v \notin Range(unplayed_videos)
  /\ \A f \in DOMAIN movie_cycle :
       /\ movie_cycle[f] <= 1
       /\ movie_cycle[f] = 1 => f \notin Range(unrecommended_posters)

\* Both kinds of music request have served in the same cycle.
C10_Witness ==
  /\ NumVideos = 2
  /\ ~music_only_random
  /\ response.route = "random_music"
  /\ \A v \in DOMAIN music_cycle : music_cycle[v] = 1
  /\ unplayed_videos = <<>>

\* ------------------------------------------------------------ weather cache
\* The step is one of a weather request and did what s names.
WeatherStep(s) ==
  /\ lookups' # lookups \/ pc' # pc
  /\ weather_event'.step = s

LookupCity == weather_event'.city

C7_FailedFetchKeepsCache ==
  [][ /\ WeatherStep("fetch_failed") =>
           /\ weather_data_cache' = weather_data_cache
           /\ weather_event'.response.display_text.message # "forecast"
      /\ \A c \in DOMAIN weather_data_cache' :
           /\ weather_data_cache'[c].response.display_text.message = "forecast"
           /\ weather_data_cache'[c].response.weather_description # DescNA
    ]_vars

\* A forecast request for a region with a stale entry failed; the entry is
\* still the old one.
C7_Witness ==
  /\ weather_event.step = "fetch_failed"
  /\ weather_event.city \in DOMAIN weather_data_cache
  /\ now - weather_data_cache[weather_event.city].timestamp >= 600

\* C8: every weather lookup ends with a response and none ends in an
\* exception, whatever the input and the outcomes of the two requests.
C8_LookupNeverRaises ==
  ~weather_event.raised

\* ------------------------------------------------- weather: interleavings
\* Handler h is inside its check-then-store window for a region: it has
\* tested the region's entry (lines 105-109) and is suspended in the forecast
\* request (line 113), before its store (line 143).
InWindow(h) == pc[h] = "await_forecast"

\* The step is one of another handler than h that read (the freshness test)
\* or wrote (the store) the entry of region c.
OtherTouches(h, c) ==
  /\ lookups' # lookups \/ pc' # pc
  /\ weather_event'.handler \in Handlers \ {h}
  /\ weather_event'.step \in {"cache_hit", "fetch_issued", "stored"}
  /\ weather_event'.city = c

\* C11: while a handler is between its read of a region's cache entry and
\* its store of that entry, no other handler reads or writes the entry of
\* that region.
C11_NoInterleavingInWindow ==
  [][ \A h \in Handlers :
        InWindow(h) => ~OtherTouches(h, corrected_city[h]) ]_vars

\* C12: once the region list is non-empty, no step changes it.
C12_RegionListStable ==
  [][ location_names # <<>> => location_names' = location_names ]_vars

\* ---------------------------------------------------- weather: digit input
DigitChars == {"0", "1", "2", "3", "4", "5", "6", "7", "8", "9"}

ContainsDigit(text) == \E i \in DOMAIN text : text[i] \in DigitChars

\* C13: a lookup whose input contains a digit returns the invalid-input
\* response in its first step: the handler is not suspended, the region list,
\* the cache and the number of forecast requests stay as they were, and no
\* later step (corrector, list request, forecast request) belongs to a lookup
\* with such an input.
C13_DigitInputStopsFirst ==
  [][ /\ (lookups' # lookups /\ ContainsDigit(weather_event'.input)) =>
           /\ weather_event'.step = "invalid_input"
           /\ weather_event'.response =
                WeatherResponse(weather_event'.input, DescInvalid, "no_digits",
                                "", "", "qing")
           /\ pc' = pc
           /\ location_names' = location_names
           /\ weather_data_cache' = weather_data_cache
           /\ forecast_requests' = forecast_requests
      /\ (weather_event'.step \in {"locations_requested", "unrecognized", "raised",
                                   "cache_hit", "fetch_issued", "stored",
                                   "fetch_failed"}) =>
           ~ContainsDigit(weather_event'.input)
      /\ \A h \in Handlers : ~ContainsDigit(city_input'[h])
    ]_vars

\* A lookup with a digit was rejected while the cache already held an entry.
C13_Witness ==
  /\ weather_event.step = "invalid_input"
  /\ ContainsDigit(weather_event.input)
  /\ DOMAIN weather_data_cache # {}
  /\ location_names # <<>>

\* ------------------------------------------------------ the name corrector
Corrected(name) == [kind |-> "city", city |-> name]

\* The input of the call is one of its candidates.
InputIsCandidate == call.input_city \in Range(call.available_locations)

\* C14 as stated: a name that is among the candidates is returned as it is,
\* and the name a successful correction returned is returned again.
C14_CanonicalNameFixed ==
  /\ (call.stage >= 1 /\ InputIsCandidate) =>
       call.result = Corrected(call.input_city)
  /\ call.stage = 2 => call.again = call.result

\* C14, amended: a name that is among the candidates and that the alias
\* table does not map to another name is returned as it is, and the name a
\* successful correction returned is returned again.
C14_UnaliasedNameFixed ==
  /\ (/\ call.stage >= 1
      /\ InputIsCandidate
      /\ MANUAL_CORRECTIONS(call.input_city) = call.input_city) =>
       call.result = Corrected(call.input_city)
  /\ call.stage = 2 => call.again = call.result

\* A candidate was corrected to itself, and so was the result.
C14_Witness ==
  /\ call.stage = 2
  /\ InputIsCandidate
  /\ Len(call.available_locations) = 2
  /\ call.again = Corrected(call.input_city)

\* C15: for the aliased input 台北 the result is the one of its alias target
\* 臺北市: 臺北市 when that is a candidate, whatever else the candidates hold
\* (台北 itself included), and never a name chosen for the raw input.
C15_AliasBeforeFuzzy ==
  (call.stage >= 1 /\ call.input_city = <<"tai", "bei">>) =>
     /\ TaibeiShi \in Range(call.available_locations) =>
          call.result = Corrected(TaibeiShi)
     /\ call.result.kind = "city" => call.result.city = TaibeiShi
     /\ call.result = auto_correct_city(TaibeiShi, call.available_locations)

\* 台北 was corrected to 臺北市 although 台北 itself is a candidate.
C15_Witness ==
  /\ call.stage >= 1
  /\ call.input_city = <<"tai", "bei">>
  /\ InputIsCandidate
  /\ call.result = Corrected(TaibeiShi)

\* ------------------------------------------------ serve calls and refills
\* The recursive calls each serve function makes from the current state.
MusicDepths ==
  {find_and_recommend_music_by_desc(all_available_videos, unplayed_videos,
      played, yt_videos_json, desc, 0).depth : desc \in Queries}
  \cup
  {get_random_music_recommendation(all_available_videos, unplayed_videos,
      played, yt_videos_json, pick, 0).depth : pick \in 1..MaxVideos}

MovieDepths ==
  {get_random_movie_poster(all_movie_posters, unrecommended_posters,
      poster_dir, pick, 0).depth : pick \in 1..MaxFiles}

\* C16: every serve call ends after at most one recursive retry.  With an
\* empty universe it returns the reply of an empty list and changes nothing.
\* With a non-empty universe and nothing remaining it first refills: when it
\* returns an item, remaining is the whole universe without that item; when
\* it returns none (by-match without a match, or its scan raising), remaining
\* is the whole universe with every played flag cleared.  With something
\* remaining it does not refill and removes at most one item.
C16_ServeEndsAfterOneRefill ==
  [][ /\ \A d \in MusicDepths \cup MovieDepths : d <= 1
      /\ MusicStep =>
           /\ all_available_videos' = <<>> =>
                /\ response'.kind = "uninitialized"
                /\ unplayed_videos' = <<>>
           /\ (all_available_videos # <<>> /\ unplayed_videos = <<>>) =>
                /\ RandomMusicStep => response'.kind = "item"
                /\ IF response'.kind = "item"
                   THEN /\ unplayed_videos' =
                             ListRemove(all_available_videos, response'.item)
                        /\ \A v \in DOMAIN played' :
                             played'[v] <=> v = response'.item
                   ELSE /\ unplayed_videos' = all_available_videos
                        /\ \A v \in DOMAIN played' : ~played'[v]
           /\ unplayed_videos # <<>> =>
                /\ all_available_videos' = all_available_videos
                /\ unplayed_videos' =
                     IF response'.kind = "item"
                     THEN ListRemove(unplayed_videos, response'.item)
                     ELSE unplayed_videos
      /\ MovieStep =>
           /\ all_movie_posters' = <<>> =>
                /\ response'.kind = "uninitialized"
                /\ unrecommended_posters' = <<>>
           /\ (all_movie_posters # <<>> /\ unrecommended_posters = <<>>) =>
                /\ response'.kind = "item"
                /\ unrecommended_posters' =
                     ListRemove(all_movie_posters, response'.item)
           /\ unrecommended_posters # <<>> =>
                /\ response'.kind = "item"
                /\ unrecommended_posters' =
                     ListRemove(unrecommended_posters, response'.item)
    ]_vars

\* A by-match call found nothing remaining, refilled, and still found no
\* match: the whole universe is remaining again.
C16_Witness ==
  /\ response.route = "recommend_music"
  /\ response.kind = "not_found"
  /\ music_refilled
  /\ NumVideos = 2
  /\ unplayed_videos = all_available_videos
  /\ \A v \in DOMAIN played : ~played[v]

\* ------------------------------------------------------------ the loaders
\* The step is a call of the loader fn.
LoaderStep(fn) == call' # call /\ call'.fn = fn

\* C17: a call of a loader in a state whose universe is not empty changes
\* neither the universe nor remaining nor a played flag.
C17_LoaderIsNoOpOnceLoaded ==
  [][ /\ (LoaderStep("_load_videos_data") /\ all_available_videos # <<>>) =>
           UNCHANGED <<all_available_videos, unplayed_videos, played>>
      /\ (LoaderStep("_load_movie_posters") /\ all_movie_posters # <<>>) =>
           UNCHANGED <<all_movie_posters, unrecommended_posters>>
    ]_vars

\* _load_videos_data was called when one of two videos had been served.
C17_Witness ==
  /\ call = [fn |-> "_load_videos_data", universe |-> 2, remaining |-> 1]
  /\ music_count = 1
  /\ Len(unplayed_videos) = 1
  /\ \E v \in DOMAIN played : played[v] /\ ~yt_videos_json.items[v].played

\* ------------------------------------------------------ by-match selection
\* The list the selection runs over: the unplayed list, or the whole list
\* when the call starts with none unplayed and refills.
SelectionList ==
  IF unplayed_videos = <<>> THEN all_available_videos ELSE unplayed_videos

TagsOf(video) == yt_videos_json.items[video].tags

\* The score of a video with at least one tag: the largest partial_ratio of
\* the description with one of its tags.
ScoreOf(desc, video) ==
  CHOOSE m \in {partial_ratio(desc, TagsOf(video)[k]) : k \in DOMAIN TagsOf(video)} :
    \A k \in DOMAIN TagsOf(video) : partial_ratio(desc, TagsOf(video)[k]) <= m

\* C18: when the by-match call returns an item, the item is in remaining at
\* selection time, its score is at least 70 and at least the score of every
\* other remaining item, every item before it in remaining scores strictly
\* less, and remaining afterwards is remaining without exactly that item,
\* which is marked played; when it returns none, every remaining item scores
\* below 70 and nothing is removed; the call ends otherwise only when the
\* universe is empty or a remaining item has no tag to score.
C18_BestMatchSelected ==
  [][ ByMatchStep =>
        LET desc == response'.desc
            rem == SelectionList
        IN CASE response'.kind = "item" ->
                  /\ \A v \in Range(rem) : TagsOf(v) # <<>>
                  /\ \E i \in DOMAIN rem :
                       /\ rem[i] = response'.item
                       /\ ScoreOf(desc, rem[i]) >= 70
                       /\ \A j \in DOMAIN rem :
                            ScoreOf(desc, rem[j]) <= ScoreOf(desc, rem[i])
                       /\ \A j \in 1..(i - 1) :
                            ScoreOf(desc, rem[j]) < ScoreOf(desc, rem[i])
                       /\ unplayed_videos' =
                            [k \in 1..(Len(rem) - 1) |->
                               IF k < i THEN rem[k] ELSE rem[k + 1]]
                  /\ played'[response'.item]
             [] response'.kind = "not_found" ->
                  /\ \A v \in Range(rem) : TagsOf(v) # <<>>
                  /\ \A v \in Range(rem) : ScoreOf(desc, v) < 70
                  /\ unplayed_videos' = rem
             [] response'.kind = "ValueError" ->
                  \E v \in Range(rem) : TagsOf(v) = <<>>
             [] OTHER ->
                  response'.kind = "uninitialized" /\ all_available_videos' = <<>>
    ]_vars

\* 晴天 was asked for, both videos are tagged 晴天時多雲 and score 100, and the
\* first one was returned while the second is still remaining.
C18_Witness ==
  /\ response.route = "recommend_music"
  /\ response.kind = "item"
  /\ response.desc = "qing_tian"
  /\ response.item = 1
  /\ unplayed_videos = <<2>>
  /\ TagsOf(1) = <<"qing_tian_shi_duo_yun">>
  /\ TagsOf(2) = <<"qing_tian_shi_duo_yun">>

\* ---------------------------------------------------------- classification
\* keyword occurs in text as a run of consecutive characters.
IsSubstring(keyword, text) ==
  \E a \in 1..(Len(text) + 1) :
     /\ a + Len(keyword) - 1 <= Len(text)
     /\ SubSeq(text, a, a + Len(keyword) - 1) = keyword

\* The fixed keywords in their priority order: 晴, 雨, 陰, 多雲, 雪
FixedKeywords ==
  << [keyword |-> <<"qing">>, anim_type |-> "qing"],
     [keyword |-> <<"yu">>, anim_type |-> "yu"],
     [keyword |-> <<"yin">>, anim_type |-> "yin"],
     [keyword |-> <<"duo", "yun">>, anim_type |-> "duo_yun"],
     [keyword |-> <<"xue">>, anim_type |-> "xue"] >>

\* table[i] is the first entry of table whose keyword occurs in text.
FirstHit(table, i, text) ==
  /\ IsSubstring(table[i].keyword, text)
  /\ \A j \in 1..(i - 1) : ~IsSubstring(table[j].keyword, text)

NoHit(table, text) ==
  \A i \in DOMAIN table : ~IsSubstring(table[i].keyword, text)

\* C19: the result is the category of the first keyword of the configured
\* mapping that occurs in the description; when none occurs, the category of
\* the first of 晴, 雨, 陰, 多雲, 雪 that occurs; when none of those occurs
\* either, 晴.
C19_ClassifiedByFirstKeyword ==
  call.stage = 1 =>
    LET text == call.weather_desc
    IN /\ \A i \in DOMAIN WEATHER_KEYWORDS_MAP :
            FirstHit(WEATHER_KEYWORDS_MAP, i, text) =>
              call.result = WEATHER_KEYWORDS_MAP[i].anim_type
       /\ NoHit(WEATHER_KEYWORDS_MAP, text) =>
            /\ \A i \in DOMAIN FixedKeywords :
                 FirstHit(FixedKeywords, i, text) =>
                   call.result = FixedKeywords[i].anim_type
            /\ NoHit(FixedKeywords, text) => call.result = "qing"

\* 晴多雲 holds the fixed keyword 晴 and the configured keyword 多雲; the
\* configured one decides.
C19_Witness ==
  /\ call.stage = 1
  /\ call.weather_desc = <<"qing", "duo", "yun">>
  /\ call.result = "duo_yun"

\* ------------------------------------------------------------ played flags
\* In the state (all, unplayed, flags): a video is marked played exactly when
\* it is not in the unplayed list.
FlagsMatch(all, unplayed, flags) ==
  /\ DOMAIN flags = DOMAIN all
  /\ \A v \in Range(all) : flags[v] <=> v \notin Range(unplayed)

\* C20: in every state a video of the universe is marked played exactly when
\* it is not in the unplayed list; a call that starts with nothing unplayed
\* refills, after which only the video it returns, if any, is marked played
\* and every other video of the universe is unplayed again.
C20_PlayedIffNotRemaining ==
  [][ /\ FlagsMatch(all_available_videos, unplayed_videos, played)
      /\ FlagsMatch(all_available_videos', unplayed_videos', played')
      /\ (MusicStep /\ all_available_videos # <<>> /\ unplayed_videos = <<>>) =>
           /\ \A v \in Range(all_available_videos') :
                played'[v] <=> (response'.kind = "item" /\ v = response'.item)
           /\ Range(unplayed_videos') =
                Range(all_available_videos') \ Served([kind |-> response'.kind,
                                                       item |-> response'.item])
    ]_vars

\* After a refill one of two videos has been served again: it is marked
\* played, the other one is unplayed although the data file marks it played.
C20_Witness ==
  /\ music_refilled
  /\ NumVideos = 2
  /\ \E v, w \in Range(all_available_videos) :
       /\ played[v] /\ unplayed_videos = <<w>> /\ ~played[w]
       /\ yt_videos_json.items[w].played

\* ------------------------------------------------- weather: cache entries
\* The names a region list of the program holds.
RegionNames == Range(FallbackLocations) \cup Range(RemoteLocations)

\* C21: every entry of the cache is keyed by a region name, its snapshot
\* carries that name as city_name and is a forecast snapshot, not an
\* invalid-input, unrecognized-region or error response; a forecast request
\* is only sent for the name the corrector returned for the input from the
\* region list then in force, and only the store of its answer adds or
\* replaces an entry, the one of that name; no entry is ever removed.
C21_CacheWellFormed ==
  [][ /\ \A c \in DOMAIN weather_data_cache' :
           /\ c \in RegionNames
           /\ weather_data_cache'[c].response.city_name = c
           /\ weather_data_cache'[c].response.display_text.message = "forecast"
           /\ weather_data_cache'[c].response.weather_description
                \notin {DescNA, DescInvalid}
           /\ weather_data_cache'[c].timestamp <= now'
      /\ DOMAIN weather_data_cache \subseteq DOMAIN weather_data_cache'
      /\ WeatherStep("fetch_issued") =>
           /\ weather_event'.city \in Range(location_names')
           /\ weather_event'.city \in
                {weather_event'.input, MANUAL_CORRECTIONS(weather_event'.input)}
           /\ corrected_city'[weather_event'.handler] = weather_event'.city
      /\ \A c \in DOMAIN weather_data_cache' :
           (c \notin DOMAIN weather_data_cache
              \/ weather_data_cache'[c] # weather_data_cache[c]) =>
             /\ WeatherStep("stored")
             /\ c = corrected_city[weather_event'.handler]
    ]_vars

\* The answers for 高雄市 and for 台北, corrected to 臺北市, are both stored.
C21_Witness ==
  /\ weather_event.step = "stored"
  /\ weather_event.input = <<"tai", "bei">>
  /\ DOMAIN weather_data_cache = {TaibeiShi, GaoxiongShi}
  /\ weather_data_cache[TaibeiShi].response.city_name = TaibeiShi

====
